---- MODULE Spec2Model ----
(***************************************************************************)
(* Model of the audentify fingerprinting engine:                           *)
(*   - the landmark hasher (processing/HashGenerator.cpp),                 *)
(*   - the SQLite-backed hash index (storage/Storage.cpp),                 *)
(*   - the recognizer that serialises ingest and lookup on one mutex       *)
(*     (recognition/Recognition.cpp).                                      *)
(*                                                                         *)
(* Units.  The code works on doubles; the model uses scaled integers:      *)
(*   frequency in 1/100 Hz, time in 1/100000 s (10 microseconds).          *)
(* A 64-bit unsigned value is a pair <<hi, lo>> of limbs, value            *)
(* hi * 2^26 + lo with lo < 2^26 (TLC integers are 32 bits wide).          *)
(***************************************************************************)
EXTENDS Integers, Sequences, FiniteSets, TLC

\* ------------------------------------------------------------------------
\* Program constants (core/Constants.cpp, Storage.cpp, Storage.h)
\* ------------------------------------------------------------------------
\* TARGET_START = 0.02 s
TARGET_START == 2000
\* TARGET_T = 0.5 s
TARGET_T == 50000
\* TARGET_F = 500 Hz
TARGET_F == 50000
TARGET_ZONE_POINTS == 5
\* const int maxRetries = 3
maxRetries == 3
\* getMatches(hashes, threshold = 5)
DefaultThreshold == 5
\* const double binWidth = 0.5 (seconds)
binWidth == 50000
\* sleep_for(milliseconds(100 * attempt))
BackoffUnitMs == 100

\* ------------------------------------------------------------------------
\* Bounds of the model
\* ------------------------------------------------------------------------
\* longest peak list handed to the hasher in the hasher specification
MaxPeaks == 3
\* registerSong calls issued per ingest thread
MaxCalls == 2
\* recognizeSong calls issued per query thread
MaxQueries == 1
MaxRows == 5
MaxQueryLen == 2
\* most candidate peaks handed to getTargetZoneOptimized next to the anchor
MaxZonePeaks == 6
\* most peaks the chunk workers of the long path return together
MaxMerged == 3
\* most candidate peaks handed to filterTemporalPeaks
MaxCandidates == 17
\* most supported files in the directory handed to registerDirectory
MaxFiles == 4

\* ------------------------------------------------------------------------
\* 64-bit unsigned arithmetic on two 26-bit limbs
\* ------------------------------------------------------------------------
Limb == 67108864

RECURSIVE BitAnd(_, _)
BitAnd(a, b) ==
    IF a = 0 \/ b = 0 THEN 0
    ELSE ((a % 2) * (b % 2)) + 2 * BitAnd(a \div 2, b \div 2)

RECURSIVE BitOr(_, _)
BitOr(a, b) ==
    IF a = 0 THEN b
    ELSE IF b = 0 THEN a
    ELSE (IF (a % 2) + (b % 2) > 0 THEN 1 ELSE 0) + 2 * BitOr(a \div 2, b \div 2)

\* static_cast<uint64_t>(x) of a non-negative value below 2^26
U64(v) == <<0, v>>
U64And(x, y) == <<BitAnd(x[1], y[1]), BitAnd(x[2], y[2])>>
U64Or(x, y) == <<BitOr(x[1], y[1]), BitOr(x[2], y[2])>>
\* x << 26 for x below 2^26: the low limb moves into the high limb
U64Shl26(x) == <<x[2], 0>>
\* x << 12 for x below 2^26: the top 12 bits of the low limb carry over
U64Shl12(x) == <<x[2] \div 16384, (x[2] % 16384) * 4096>>
\* 0xFFFFFFFFFF = 2^40 - 1
Mask40 == <<16383, Limb - 1>>

\* ------------------------------------------------------------------------
\* Peaks (utils/Types.h) and the landmark hasher (HashGenerator.cpp)
\* ------------------------------------------------------------------------
Peak(f, t, a) == [frequency |-> f, time |-> t, amplitude |-> a]

\* static_cast<uint64_t>(p.frequency * 10): truncation of a non-negative double
FreqTimes10(p) == p.frequency \div 10
\* static_cast<uint64_t>((p2.time - p1.time) * 10000); the target zone makes
\* the difference positive
DtTimes10000(p1, p2) == (p2.time - p1.time) \div 10

\* the same computation with the 12-bit mask on dt left out
hashPointPairUnmaskedDt(p1, p2) ==
    LET f1 == U64And(U64(FreqTimes10(p1)), U64(16383))
        f2 == U64And(U64(FreqTimes10(p2)), U64(16383))
        dt == U64(DtTimes10000(p1, p2))
        hash == U64Or(U64Or(U64Shl26(f1), U64Shl12(f2)), dt)
    IN  U64And(hash, Mask40)

hashPointPairEnhanced(p1, p2) ==
    LET f1 == U64And(U64(FreqTimes10(p1)), U64(16383))
        f2 == U64And(U64(FreqTimes10(p2)), U64(16383))
        dt == U64And(U64(DtTimes10000(p1, p2)), U64(4095))
        hash == U64Or(U64Or(U64Shl26(f1), U64Shl12(f2)), dt)
    IN  U64And(hash, Mask40)

\* static_cast<long>(hash): long is 64 bits wide on the LP64 targets the
\* service is built for, and the value is below 2^40, so the bits are kept
ToLong(h) == <<h[1], h[2]>>

HashResult(h, t, id) == [hash |-> h, timeOffset |-> t, songId |-> id]

\* the zone test of getTargetZoneOptimized
InTargetZone(anchor, peak) ==
    LET xMin == anchor.time + TARGET_START
        xMax == xMin + TARGET_T
        yMin == anchor.frequency - (TARGET_F \div 2)
        yMax == yMin + TARGET_F
    IN  /\ peak.frequency >= yMin /\ peak.frequency <= yMax
        /\ peak.time >= xMin /\ peak.time <= xMax

\* std::sort with the comparator a.amplitude > b.amplitude.  The order of
\* peaks of equal amplitude is unspecified; tie picks one of the orders an
\* implementation can produce (input order kept, or input order reversed).
TieOrders == {"keep", "reverse"}

AmpBefore(s, i, j, tie) ==
    \/ s[i].amplitude > s[j].amplitude
    \/ /\ s[i].amplitude = s[j].amplitude
       /\ IF tie = "keep" THEN i < j ELSE i > j

RECURSIVE SortIdx(_, _, _)
SortIdx(s, rest, tie) ==
    IF rest = {} THEN <<>>
    ELSE LET first == CHOOSE i \in rest :
                          \A j \in rest \ {i} : AmpBefore(s, i, j, tie)
         IN  <<s[first]>> \o SortIdx(s, rest \ {first}, tie)

SortByAmplitude(s, tie) == SortIdx(s, DOMAIN s, tie)

getTargetZoneOptimized(anchor, allPeaks, tie) ==
    LET targetPeaks == SelectSeq(allPeaks, LAMBDA p : InTargetZone(anchor, p))
    IN  IF Len(targetPeaks) > TARGET_ZONE_POINTS
        THEN SubSeq(SortByAmplitude(targetPeaks, tie), 1, TARGET_ZONE_POINTS)
        ELSE targetPeaks

\* ------------------------------------------------------------------------
\* Song ids: std::hash of the path, printed with std::hex
\* ------------------------------------------------------------------------
Files == {"a.wav", "b.wav", "c.wav"}

\* std::hash<std::string> on the modelled paths (implementation defined;
\* distinct paths get distinct values here)
StdHash(filename) ==
    CASE filename = "a.wav" -> 26
      [] filename = "b.wav" -> 10
      [] filename = "c.wav" -> 31
      [] filename = "s.wav" -> 44
      [] filename = "e.M4A" -> 45
      [] filename = "n.txt" -> 46
      [] OTHER -> 0

\* oss << std::hex << hashValue: hexadecimal digits, most significant first,
\* no leading zeros; a digit is modelled by its value 0..15
RECURSIVE ToHex(_)
ToHex(n) == IF n < 16 THEN <<n>> ELSE ToHex(n \div 16) \o <<n % 16>>

generateSongId(filename) == ToHex(StdHash(filename))

\* std::string operator< : lexicographic on the characters
RECURSIVE StrLess(_, _)
StrLess(a, b) ==
    IF b = <<>> THEN FALSE
    ELSE IF a = <<>> THEN TRUE
    ELSE IF a[1] # b[1] THEN a[1] < b[1]
    ELSE StrLess(Tail(a), Tail(b))

\* ------------------------------------------------------------------------
\* hashPointsOptimized
\* ------------------------------------------------------------------------
\* std::min(peaks.size(), static_cast<size_t>(peaks.size() * 0.8))
MaxAnchors(n) ==
    LET limited == (n * 8) \div 10
    IN  IF n < limited THEN n ELSE limited

\* the same loop without the seenHashes test
RECURSIVE HashTargetsNoDedup(_, _, _, _, _)
HashTargetsNoDedup(anchor, targetPeaks, k, songId, acc) ==
    IF k > Len(targetPeaks) THEN acc
    ELSE LET hash == hashPointPairEnhanced(anchor, targetPeaks[k])
             next == [hashes |-> Append(acc.hashes,
                                        HashResult(ToLong(hash), anchor.time, songId)),
                      seenHashes |-> acc.seenHashes \cup {hash}]
         IN  HashTargetsNoDedup(anchor, targetPeaks, k + 1, songId, next)

\* the inner loop over the targets of one anchor; acc = [hashes, seenHashes]
RECURSIVE HashTargets(_, _, _, _, _)
HashTargets(anchor, targetPeaks, k, songId, acc) ==
    IF k > Len(targetPeaks) THEN acc
    ELSE LET hash == hashPointPairEnhanced(anchor, targetPeaks[k])
             next == IF hash \notin acc.seenHashes
                     THEN [hashes |-> Append(acc.hashes,
                                        HashResult(ToLong(hash), anchor.time, songId)),
                           seenHashes |-> acc.seenHashes \cup {hash}]
                     ELSE acc
         IN  HashTargets(anchor, targetPeaks, k + 1, songId, next)

RECURSIVE HashAnchors(_, _, _, _, _, _)
HashAnchors(peaks, i, maxAnchors, songId, tie, acc) ==
    IF i > maxAnchors THEN acc
    ELSE HashAnchors(peaks, i + 1, maxAnchors, songId, tie,
             HashTargets(peaks[i], getTargetZoneOptimized(peaks[i], peaks, tie),
                         1, songId, acc))

hashPointsOptimized(peaks, filename, tie) ==
    HashAnchors(peaks, 1, MaxAnchors(Len(peaks)), generateSongId(filename), tie,
                [hashes |-> <<>>, seenHashes |-> {}]).hashes

\* ------------------------------------------------------------------------
\* Inputs of the ingest/lookup model: the peaks the DSP front end yields
\* for each modelled file.  "b.wav" is a copy of "a.wav" under another
\* path; "c.wav" yields fewer fingerprints than the lookup threshold.
\* ------------------------------------------------------------------------
PeaksOfFile(filename) ==
    CASE filename \in {"a.wav", "b.wav"} ->
             <<Peak(44000, 0, 5), Peak(44000, 10000, 5),
               Peak(44000, 30000, 5), Peak(46000, 60000, 5)>>
      [] filename = "c.wav" ->
             <<Peak(100000, 0, 5), Peak(100000, 10000, 5), Peak(100000, 20000, 5)>>
      [] filename \in {"s.wav", "e.M4A"} ->
             <<Peak(120000, 0, 5), Peak(120000, 10000, 5), Peak(120000, 20000, 5)>>
      [] OTHER -> <<>>

\* fingerprintFileParallelOptimized on a supported file of 10..60 s:
\* the short path, peaks -> hashPointsOptimized
FingerprintTable ==
    [f \in Files |-> hashPointsOptimized(PeaksOfFile(f), f, "keep")]

\* ------------------------------------------------------------------------
\* AudioLoader.cpp and the entry checks of fingerprintFileParallelOptimized
\* ------------------------------------------------------------------------
SAMPLE_RATE == 22050

\* the directory entries next to Files: a 9.99... s clip, an .M4A file
\* holding 15 s of audio, and a text file
OtherFiles == {"s.wav", "e.M4A", "n.txt"}
DirEntries == Files \cup OtherFiles

\* std::filesystem::path(filename).extension().string(), character by
\* character
PathExtension(filename) ==
    CASE filename \in Files \cup {"s.wav"} -> <<".", "w", "a", "v">>
      [] filename = "e.M4A" -> <<".", "M", "4", "A">>
      [] filename = "n.txt" -> <<".", "t", "x", "t">>
      [] OTHER -> <<>>

\* ::tolower on one character
ToLowerChar(c) ==
    CASE c = "M" -> "m"
      [] c = "A" -> "a"
      [] c = "W" -> "w"
      [] c = "V" -> "v"
      [] OTHER -> c

\* std::transform(extension.begin(), extension.end(), ..., ::tolower)
ToLower(str) == [i \in DOMAIN str |-> ToLowerChar(str[i])]

\* AudioLoader.cpp isSupportedFormat
isSupportedFormat(filename) ==
    LET extension == ToLower(PathExtension(filename))
    IN  \/ extension = <<".", "w", "a", "v">>
        \/ extension = <<".", "m", "p", "3">>
        \/ extension = <<".", "f", "l", "a", "c">>

\* Recognition.cpp SongRecognizer::isSupportedExtension
isSupportedExtension(filename) ==
    LET extension == ToLower(PathExtension(filename))
    IN  extension \in {<<".", "m", "p", "3">>, <<".", "w", "a", "v">>,
                       <<".", "f", "l", "a", "c">>, <<".", "m", "4", "a">>}

\* the number of samples the file's audio has at SAMPLE_RATE: 15 s for the
\* songs, one sample less than 10 s for s.wav
AudioSamples(filename) ==
    CASE filename \in Files \cup {"e.M4A"} -> 15 * SAMPLE_RATE
      [] filename = "s.wav" -> 10 * SAMPLE_RATE - 1
      [] OTHER -> 0

\* the fingerprinter without the test on the length of the audio
fingerprintFileNoLengthCheck(filename) ==
    IF ~isSupportedFormat(filename) THEN <<>>
    ELSE hashPointsOptimized(PeaksOfFile(filename), filename, "keep")

fingerprintFileParallelOptimized(filename) ==
    IF ~isSupportedFormat(filename) THEN <<>>
    ELSE IF AudioSamples(filename) < SAMPLE_RATE * 10 THEN <<>>
    ELSE FingerprintTable[filename]

\* ------------------------------------------------------------------------
\* Storage.cpp: rows, tables and the pure parts of the queries
\* ------------------------------------------------------------------------
SongInfo(artist, album, title, songId) ==
    [artist |-> artist, album |-> album, title |-> title, songId |-> songId]

\* SongInfo(): all fields empty
EmptySongInfo == SongInfo("", "", "", <<>>)

MatchOffset(dbOffset, sampleOffset) ==
    [dbOffset |-> dbOffset, sampleOffset |-> sampleOffset]

HashRow(h) == [hash |-> h.hash, offset |-> h.timeOffset, song_id |-> h.songId]

\* the id written as the number itself, not as its hexadecimal digits
generateSongIdFromPathDecimal(filename) == <<StdHash(filename)>>

\* std::hash<std::string> of the path, printed with std::hex
generateSongIdFromPath(filename) == ToHex(StdHash(filename))

\* extractMetadata, the branch taken when the file carries no readable tag
extractMetadata(filename) ==
    SongInfo("Unknown Artist", "Unknown Album", filename,
             generateSongIdFromPath(filename))

\* the row storeSong binds: empty fields become "Unknown"
InfoRow(songInfo) ==
    SongInfo(IF songInfo.artist = "" THEN "Unknown" ELSE songInfo.artist,
             IF songInfo.album = "" THEN "Unknown" ELSE songInfo.album,
             IF songInfo.title = "" THEN "Unknown" ELSE songInfo.title,
             songInfo.songId)

\* INSERT OR REPLACE INTO song_info: song_id is the primary key
InsertOrReplace(infoTable, row) ==
    {r \in infoTable : r.songId # row.songId} \cup {row}

\* SELECT COUNT(*) FROM song_info WHERE song_id = ?
CountSongInfo(infoTable, songId) ==
    Cardinality({r \in infoTable : r.songId = songId})

RowsOfSong(table, songId) == SelectSeq(table, LAMBDA r : r.song_id = songId)

\* hashDict[hash.hash] = hash.timeOffset: the last entry of a hash wins
HashDict(hashes) ==
    [h \in {hashes[i].hash : i \in DOMAIN hashes} |->
        LET last == CHOOSE i \in DOMAIN hashes :
                        /\ hashes[i].hash = h
                        /\ \A k \in DOMAIN hashes : hashes[k].hash = h => k <= i
        IN  hashes[last].timeOffset]

\* the SELECT ... WHERE hash IN (...) loop of getMatches, before the filter
CollectMatches(table, hashes) ==
    LET hashDict == HashDict(hashes)
        hit == SelectSeq(table, LAMBDA r : r.hash \in DOMAIN hashDict)
        ids == {hit[i].song_id : i \in DOMAIN hit}
    IN  [id \in ids |->
            LET rows == RowsOfSong(hit, id)
            IN  [k \in DOMAIN rows |->
                    MatchOffset(rows[k].offset, hashDict[rows[k].hash])]]

\* a filter that also drops the groups holding exactly threshold entries
FilterByThresholdStrict(resultDict, threshold) ==
    [id \in {i \in DOMAIN resultDict : Len(resultDict[i]) > threshold} |->
        resultDict[id]]

FilterByThreshold(resultDict, threshold) ==
    [id \in {i \in DOMAIN resultDict : ~(Len(resultDict[i]) < threshold)} |->
        resultDict[id]]

EmptyMatches == [id \in {} |-> <<>>]

getMatches(open, table, hashes, threshold) ==
    IF ~open \/ hashes = <<>> THEN EmptyMatches
    ELSE FilterByThreshold(CollectMatches(table, hashes), threshold)

\* a lookup of song_info that finds no row
getInfoForSongIdNoRow(open, infoTable, songId) == EmptySongInfo

getInfoForSongId(open, infoTable, songId) ==
    IF ~open \/ songId = <<>> THEN EmptySongInfo
    ELSE IF \E r \in infoTable : r.songId = songId
         THEN CHOOSE r \in infoTable : r.songId = songId
         ELSE EmptySongInfo

\* SELECT COUNT(*) FROM hash
getTotalHashes(open, table) == IF ~open THEN 0 ELSE Len(table)

\* ------------------------------------------------------------------------
\* Recognition.cpp: scoreMatch and bestMatch
\* ------------------------------------------------------------------------
\* static_cast<int>(delta / binWidth): the conversion truncates toward zero
DeltaBin(delta) ==
    IF delta >= 0 THEN delta \div binWidth ELSE -((-delta) \div binWidth)

SetMax(S) == CHOOSE m \in S : \A x \in S : x <= m

\* the number of distinct delta bins instead of the tallest bin
scoreMatchBinCount(offsets) ==
    Cardinality({DeltaBin(offsets[i].dbOffset - offsets[i].sampleOffset) :
                    i \in DOMAIN offsets})

scoreMatch(offsets) ==
    IF offsets = <<>> THEN 0
    ELSE LET delta(i) == offsets[i].dbOffset - offsets[i].sampleOffset
             bins == {DeltaBin(delta(i)) : i \in DOMAIN offsets}
             histogram == [b \in bins |->
                             Cardinality({i \in DOMAIN offsets : DeltaBin(delta(i)) = b})]
         IN  SetMax({histogram[b] : b \in bins})

\* iteration order of std::map<std::string, ...>: ascending keys
RECURSIVE SortedIds(_)
SortedIds(ids) ==
    IF ids = {} THEN <<>>
    ELSE LET least == CHOOSE a \in ids : \A b \in ids \ {a} : StrLess(a, b)
         IN  <<least>> \o SortedIds(ids \ {least})

RECURSIVE BestMatchLoop(_, _, _, _, _)
BestMatchLoop(matches, order, k, bestSongId, bestScore) ==
    IF k > Len(order) THEN bestSongId
    ELSE LET offsets == matches[order[k]]
         IN  IF Len(offsets) < bestScore
             THEN BestMatchLoop(matches, order, k + 1, bestSongId, bestScore)
             ELSE IF scoreMatch(offsets) > bestScore
                  THEN BestMatchLoop(matches, order, k + 1, order[k], scoreMatch(offsets))
                  ELSE BestMatchLoop(matches, order, k + 1, bestSongId, bestScore)

\* the first candidate in key order, whatever its score
bestMatchFirstCandidate(matches) ==
    IF DOMAIN matches = {} THEN <<>> ELSE SortedIds(DOMAIN matches)[1]

bestMatch(matches) ==
    BestMatchLoop(matches, SortedIds(DOMAIN matches), 1, <<>>, 0)

\* ------------------------------------------------------------------------
\* State
\* ------------------------------------------------------------------------
Workers == {"w1", "w2"}
Queriers == {"q1"}
Free == "free"

VARIABLES
    isOpen,         \* Database::isOpen
    hashTable,      \* table hash as the connection sees it (rowid order)
    songInfoTable,  \* table song_info as the connection sees it
    durHashTable,   \* table hash as last committed
    durSongInfo,    \* table song_info as last committed
    inTxn,          \* the connection has a transaction open
    dbMutex,        \* SongRecognizer::dbMutex: its owner, or Free
    reg,            \* per ingest thread: position and locals of registerSong
    qry,            \* per query thread: position and locals of recognizeSong
    registered,     \* history: files for which registerSong returned true
    committedSongs, \* history: files whose storeSong transaction committed
    hpeaks,         \* hasher specification: the peak list handed in
    hfile,          \* hasher specification: the file name handed in
    tieOrder,       \* hasher specification: order std::sort leaves ties in
    hout,           \* hasher specification: the fingerprint list returned
    hpc,            \* hasher specification: position
    mTable,         \* matcher specification: the rows of table hash
    mQuery,         \* matcher specification: the query fingerprints
    mThreshold,     \* matcher specification: getMatches' threshold argument
    mCollected,     \* matcher specification: resultDict before the filter
    mMatches,       \* matcher specification: the map getMatches returned
    mBest,          \* matcher specification: the id bestMatch returned
    mpc,            \* matcher specification: position
    exitCode,       \* per recognize command: exit status of main, -1 while running
    tRaw,           \* temporal filter specification: the candidate list
    tTie,           \* temporal filter specification: order std::sort leaves ties in
    tOut,           \* temporal filter specification: the list returned
    tpc,            \* temporal filter specification: position
    lSamples,       \* long path specification: audio.size()
    lHw,            \* long path specification: std::thread::hardware_concurrency()
    lChunks,        \* long path specification: <<start, end>> of every chunk
    lPeaks,         \* long path specification: allPeaks as collected from the futures
    lTie,           \* long path specification: order std::sort leaves ties in
    lSorted,        \* long path specification: allPeaks after the sort by time
    lDeduped,       \* long path specification: dedupedPeaks
    lpc,            \* long path specification: position
    dFiles,         \* directory specification: supportedFiles
    dWorkers,       \* directory specification: numWorkers
    dOutcome,       \* directory specification: what registerSong returned per file
    dCalls,         \* directory specification: registerSong calls per file
    dFutures,       \* directory specification: the workers, one slice each
    dRet,           \* directory specification: what registerDirectory returned
    dpc,            \* directory specification: position
    pragmas,        \* the PRAGMA statements executed on the connection
    openRet         \* what Database::open returned, "none" before the call

dbVars == <<isOpen, hashTable, songInfoTable, durHashTable, durSongInfo, inTxn>>
threadVars == <<dbMutex, reg, qry, registered, committedSongs>>
hashVars == <<hpeaks, hfile, tieOrder, hout, hpc>>
matchVars == <<mTable, mQuery, mThreshold, mCollected, mMatches, mBest, mpc>>
cliVars == <<exitCode>>
temporalVars == <<tRaw, tTie, tOut, tpc>>
longVars == <<lSamples, lHw, lChunks, lPeaks, lTie, lSorted, lDeduped, lpc>>
dirVars == <<dFiles, dWorkers, dOutcome, dCalls, dFutures, dRet, dpc>>
openVars == <<pragmas, openRet>>
moreVars == <<temporalVars, longVars, dirVars, openVars>>
vars == <<dbVars, threadVars, hashVars, matchVars, cliVars, moreVars>>

NoSnapshot == [info |-> {}, hashes |-> <<>>, total |-> 0]

RegInit ==
    [pc |-> "idle", calls |-> 0, filename |-> "", wasRegistered |-> FALSE,
     hashes |-> <<>>, songInfo |-> EmptySongInfo,
     attempt |-> 0, j |-> 0, success |-> TRUE,
     ret |-> "none", storeRet |-> "none",
     begins |-> 0, failed |-> 0, undone |-> FALSE, sleeps |-> <<>>,
     pre |-> NoSnapshot]

QryInit ==
    [pc |-> "idle", queries |-> 0, filename |-> "", hashes |-> <<>>,
     matches |-> EmptyMatches, result |-> EmptySongInfo, looked |-> FALSE,
     obsRows |-> <<>>, obsInfo |-> {}, collected |-> <<>>, ownScore |-> 0,
     resultScore |-> 0, regAtLookup |-> {}, comAtLookup |-> {}]

\* the state after SongRecognizer::initializeDatabase() returned true on a
\* fresh index: the connection is open and both tables are empty
InitDb ==
    /\ isOpen = TRUE
    /\ hashTable = <<>>
    /\ songInfoTable = {}
    /\ durHashTable = <<>>
    /\ durSongInfo = {}
    /\ inTxn = FALSE

InitThreads ==
    /\ dbMutex = Free
    /\ reg = [w \in Workers |-> RegInit]
    /\ qry = [q \in Queriers |-> QryInit]
    /\ registered = {}
    /\ committedSongs = {}

InitHashOff ==
    /\ hpeaks = <<>>
    /\ hfile = ""
    /\ tieOrder = "keep"
    /\ hout = <<>>
    /\ hpc = "off"

InitMatchOff ==
    /\ mTable = <<>>
    /\ mQuery = <<>>
    /\ mThreshold = DefaultThreshold
    /\ mCollected = EmptyMatches
    /\ mMatches = EmptyMatches
    /\ mBest = <<>>
    /\ mpc = "off"

\* no recognize command has returned from main
InitCli == exitCode = [q \in Queriers |-> -1]

InitTemporalOff ==
    /\ tRaw = <<>>
    /\ tTie = "keep"
    /\ tOut = <<>>
    /\ tpc = "off"

InitLongOff ==
    /\ lSamples = 0
    /\ lHw = 1
    /\ lChunks = <<>>
    /\ lPeaks = <<>>
    /\ lTie = "keep"
    /\ lSorted = <<>>
    /\ lDeduped = <<>>
    /\ lpc = "off"

InitDirOff ==
    /\ dFiles = <<>>
    /\ dWorkers = 1
    /\ dOutcome = <<>>
    /\ dCalls = <<>>
    /\ dFutures = <<>>
    /\ dRet = "none"
    /\ dpc = "off"

\* the state Database::open() leaves behind when it returns true: none of
\* its PRAGMA statements has run (see DatabaseOpen)
InitOpened ==
    /\ pragmas = {}
    /\ openRet = "true"

InitMore == InitTemporalOff /\ InitLongOff /\ InitDirOff /\ InitOpened

Init == InitDb /\ InitThreads /\ InitHashOff /\ InitMatchOff /\ InitCli /\ InitMore

\* ------------------------------------------------------------------------
\* SongRecognizer::registerSong and Database::storeSong, one action per step
\* ------------------------------------------------------------------------
SetReg(w, r) == reg' = [reg EXCEPT ![w] = r]

\* std::lock_guard<std::mutex> lock(dbMutex) in registerSong: blocks until
\* the mutex is free
registerSongLock(w) == dbMutex = Free

\* a return path that leaves the mutex held
registerSongUnlockLeaked(w) == w

\* the lock_guard destructor at every return of registerSong
registerSongUnlock(w) == Free

\* songInDb with the lookup keyed on the empty id
songInDbWrongKey(filename) ==
    IF ~isOpen THEN FALSE
    ELSE CountSongInfo(songInfoTable, <<>>) > 0

songInDb(filename) ==
    IF ~isOpen THEN FALSE
    ELSE CountSongInfo(songInfoTable, generateSongIdFromPath(filename)) > 0

\* a registerSong call is issued by an ingest thread
RegCall(w, f) ==
    /\ reg[w].pc = "idle"
    /\ reg[w].calls < MaxCalls
    /\ SetReg(w, [reg[w] EXCEPT !.pc = "lock", !.calls = @ + 1, !.filename = f,
                                !.wasRegistered = (f \in registered),
                                !.ret = "none"])
    /\ UNCHANGED <<dbVars, dbMutex, qry, registered, committedSongs, hashVars, matchVars, cliVars, moreVars>>

RegLock(w) ==
    /\ reg[w].pc = "lock"
    /\ registerSongLock(w)
    /\ dbMutex' = w
    /\ SetReg(w, [reg[w] EXCEPT !.pc = "songInDb"])
    /\ UNCHANGED <<dbVars, qry, registered, committedSongs, hashVars, matchVars, cliVars, moreVars>>

\* if (db->songInDb(filename)) return true;
RegSongInDb(w) ==
    /\ reg[w].pc = "songInDb"
    /\ IF songInDb(reg[w].filename)
       THEN /\ SetReg(w, [reg[w] EXCEPT !.pc = "idle", !.ret = "true"])
            /\ dbMutex' = registerSongUnlock(w)
            /\ registered' = registered \cup {reg[w].filename}
       ELSE /\ SetReg(w, [reg[w] EXCEPT !.pc = "fingerprint"])
            /\ UNCHANGED <<dbMutex, registered>>
    /\ UNCHANGED <<dbVars, qry, committedSongs, hashVars, matchVars, cliVars, moreVars>>

\* hashes = fingerprintFileParallelOptimized(filename); empty -> return false;
\* songInfo = extractMetadata(filename)
RegFingerprint(w) ==
    /\ reg[w].pc = "fingerprint"
    /\ LET hashes == fingerprintFileParallelOptimized(reg[w].filename)
       IN  IF hashes = <<>>
           THEN /\ SetReg(w, [reg[w] EXCEPT !.pc = "idle", !.ret = "false"])
                /\ dbMutex' = registerSongUnlock(w)
           ELSE /\ SetReg(w, [reg[w] EXCEPT !.pc = "store", !.hashes = hashes,
                                  !.songInfo = extractMetadata(reg[w].filename)])
                /\ UNCHANGED dbMutex
    /\ UNCHANGED <<dbVars, qry, registered, committedSongs, hashVars, matchVars, cliVars, moreVars>>

\* what the tables hold for a song id, and the total row count of hash
Snapshot(songId) ==
    [info |-> {r \in songInfoTable : r.songId = songId},
     hashes |-> RowsOfSong(hashTable, songId),
     total |-> Len(hashTable)]

\* entry of storeSong: if (!isOpen || hashes.empty()) return false;
StoreEnter(w) ==
    /\ reg[w].pc = "store"
    /\ LET r == [reg[w] EXCEPT !.attempt = 0, !.storeRet = "none", !.begins = 0,
                               !.failed = 0, !.undone = FALSE, !.sleeps = <<>>,
                               !.pre = Snapshot(reg[w].songInfo.songId)]
       IN  IF ~isOpen \/ reg[w].hashes = <<>>
           THEN SetReg(w, [r EXCEPT !.pc = "storeRet", !.storeRet = "false"])
           ELSE SetReg(w, [r EXCEPT !.pc = "begin"])
    /\ UNCHANGED <<dbVars, dbMutex, qry, registered, committedSongs, hashVars, matchVars, cliVars, moreVars>>

\* a constant wait in place of the linear one
BackoffMsConstant(attempt) == BackoffUnitMs

\* std::chrono::milliseconds(100 * attempt)
BackoffMs(attempt) == BackoffUnitMs * attempt

\* the step taken after a failure inside attempt `attempt`:
\* if (attempt < maxRetries - 1) continue; otherwise return false
AfterFailure(r) ==
    IF r.attempt < maxRetries - 1
    THEN [r EXCEPT !.pc = "begin", !.attempt = @ + 1]
    ELSE [r EXCEPT !.pc = "storeRet", !.storeRet = "false"]

\* top of the retry loop: the backoff sleep, then BEGIN IMMEDIATE TRANSACTION.
\* BEGIN fails when the write lock cannot be had or a transaction is open.
StoreBegin(w, ok) ==
    /\ reg[w].pc = "begin"
    /\ ok => (isOpen /\ ~inTxn)
    /\ LET r == [reg[w] EXCEPT
                   !.sleeps = IF reg[w].attempt > 0
                              THEN Append(@, BackoffMs(reg[w].attempt)) ELSE @,
                   !.begins = @ + 1]
       IN  IF ok
           THEN /\ inTxn' = TRUE
                /\ SetReg(w, [r EXCEPT !.pc = "info", !.success = TRUE])
           ELSE /\ UNCHANGED inTxn
                /\ SetReg(w, AfterFailure([r EXCEPT !.failed = @ + 1]))
    /\ UNCHANGED <<isOpen, hashTable, songInfoTable, durHashTable, durSongInfo,
                   dbMutex, qry, registered, committedSongs, hashVars, matchVars, cliVars, moreVars>>

\* INSERT OR REPLACE INTO song_info: prepare, bind, step
StoreInfo(w, outcome) ==
    /\ reg[w].pc = "info"
    /\ IF outcome = "ok"
       THEN /\ songInfoTable' = InsertOrReplace(songInfoTable, InfoRow(reg[w].songInfo))
            /\ SetReg(w, [reg[w] EXCEPT !.pc = "hashPrepare"])
       ELSE /\ UNCHANGED songInfoTable
            /\ SetReg(w, [reg[w] EXCEPT !.pc = "rollback", !.failed = @ + 1])
    /\ UNCHANGED <<isOpen, hashTable, durHashTable, durSongInfo, inTxn,
                   dbMutex, qry, registered, committedSongs, hashVars, matchVars, cliVars, moreVars>>

\* sqlite3_prepare_v2 of INSERT INTO hash
StoreHashPrepare(w, ok) ==
    /\ reg[w].pc = "hashPrepare"
    /\ IF ok
       THEN SetReg(w, [reg[w] EXCEPT !.pc = "hashes", !.j = 1])
       ELSE SetReg(w, [reg[w] EXCEPT !.pc = "rollback", !.failed = @ + 1])
    /\ UNCHANGED <<dbVars, dbMutex, qry, registered, committedSongs, hashVars, matchVars, cliVars, moreVars>>

\* one sqlite3_step of INSERT INTO hash for hashes[j]
StoreHash(w, ok) ==
    /\ reg[w].pc = "hashes"
    /\ IF ok
       THEN /\ hashTable' = Append(hashTable, HashRow(reg[w].hashes[reg[w].j]))
            /\ SetReg(w, [reg[w] EXCEPT
                             !.j = @ + 1,
                             !.pc = IF reg[w].j = Len(reg[w].hashes)
                                    THEN "commit" ELSE "hashes"])
       ELSE /\ UNCHANGED hashTable
            /\ SetReg(w, [reg[w] EXCEPT !.pc = "rollback", !.success = FALSE,
                                        !.failed = @ + 1,
                                        !.undone = (@ \/ reg[w].j > 1)])
    /\ UNCHANGED <<isOpen, songInfoTable, durHashTable, durSongInfo, inTxn,
                   dbMutex, qry, registered, committedSongs, hashVars, matchVars, cliVars, moreVars>>

\* executeSQL("COMMIT")
StoreCommit(w, ok) ==
    /\ reg[w].pc = "commit"
    /\ IF ok
       THEN /\ durHashTable' = hashTable
            /\ durSongInfo' = songInfoTable
            /\ inTxn' = FALSE
            /\ committedSongs' = committedSongs \cup {reg[w].filename}
            /\ SetReg(w, [reg[w] EXCEPT !.pc = "storeRet", !.storeRet = "true"])
       ELSE /\ UNCHANGED <<durHashTable, durSongInfo, inTxn, committedSongs>>
            /\ SetReg(w, [reg[w] EXCEPT !.pc = "rollback", !.failed = @ + 1,
                                        !.undone = TRUE])
    /\ UNCHANGED <<isOpen, hashTable, songInfoTable, dbMutex, qry, registered,
                   hashVars, matchVars, cliVars, moreVars>>

\* a rollback that leaves the rows inserted so far in the hash table
RolledBackHashTableKept == hashTable

\* what ROLLBACK leaves in the hash table: the last committed rows
RolledBackHashTable == durHashTable

\* a rollback that leaves the song_info row of the failed attempt in place
RolledBackSongInfoKept == songInfoTable

\* what ROLLBACK leaves in song_info: the last committed rows
RolledBackSongInfo == durSongInfo

\* executeSQL("ROLLBACK"), then continue or return false
StoreRollback(w) ==
    /\ reg[w].pc = "rollback"
    /\ hashTable' = RolledBackHashTable
    /\ songInfoTable' = RolledBackSongInfo
    /\ inTxn' = FALSE
    /\ SetReg(w, AfterFailure(reg[w]))
    /\ UNCHANGED <<isOpen, durHashTable, durSongInfo, dbMutex, qry, registered,
                   committedSongs, hashVars, matchVars, cliVars, moreVars>>

\* registerSong returns what storeSong returned; the lock_guard is released
RegReturn(w) ==
    /\ reg[w].pc = "storeRet"
    /\ SetReg(w, [reg[w] EXCEPT !.pc = "idle", !.ret = reg[w].storeRet,
                                !.hashes = <<>>, !.songInfo = EmptySongInfo,
                                !.attempt = 0, !.j = 0, !.success = TRUE,
                                !.storeRet = "none", !.begins = 0,
                                !.failed = 0, !.undone = FALSE,
                                !.sleeps = <<>>, !.pre = NoSnapshot])
    /\ dbMutex' = registerSongUnlock(w)
    /\ registered' = IF reg[w].storeRet = "true"
                     THEN registered \cup {reg[w].filename} ELSE registered
    /\ UNCHANGED <<dbVars, qry, committedSongs, hashVars, matchVars, cliVars, moreVars>>

\* ------------------------------------------------------------------------
\* SongRecognizer::recognizeSong and recognizeFromHashes
\* ------------------------------------------------------------------------
SetQry(q, r) == qry' = [qry EXCEPT ![q] = r]

SongIds == {generateSongIdFromPath(f) : f \in Files}

\* the lookup entered without waiting for the mutex
recognizeFromHashesNoLock(q) == TRUE

\* std::lock_guard<std::mutex> lock(dbMutex) in recognizeFromHashes
recognizeFromHashesLock(q) == dbMutex = Free

\* recognizeSong: fingerprint the clip (outside the mutex); no fingerprints
\* -> return SongInfo()
QryCall(q, f) ==
    /\ qry[q].pc \in {"idle", "done"}
    /\ qry[q].queries < MaxQueries
    /\ LET hashes == fingerprintFileParallelOptimized(f)
           r == [QryInit EXCEPT !.queries = qry[q].queries + 1, !.filename = f,
                                !.hashes = hashes]
       IN  IF hashes = <<>>
           THEN SetQry(q, [r EXCEPT !.pc = "done"])
           ELSE SetQry(q, [r EXCEPT !.pc = "lock"])
    /\ UNCHANGED <<dbVars, dbMutex, reg, registered, committedSongs, hashVars, matchVars, cliVars, moreVars>>

QryLock(q) ==
    /\ qry[q].pc = "lock"
    /\ recognizeFromHashesLock(q)
    /\ dbMutex' = q
    /\ SetQry(q, [qry[q] EXCEPT !.pc = "getMatches"])
    /\ UNCHANGED <<dbVars, reg, registered, committedSongs, hashVars, matchVars, cliVars, moreVars>>

\* auto matches = db->getMatches(hashes); empty -> return SongInfo()
QryGetMatches(q) ==
    /\ qry[q].pc = "getMatches"
    /\ LET matches == getMatches(isOpen, hashTable, qry[q].hashes, DefaultThreshold)
           collected == CollectMatches(hashTable, qry[q].hashes)
           own == generateSongIdFromPath(qry[q].filename)
           r == [qry[q] EXCEPT
                   !.matches = matches, !.looked = TRUE,
                   !.obsRows = [id \in SongIds |-> Len(RowsOfSong(hashTable, id))],
                   !.obsInfo = {row.songId : row \in songInfoTable},
                   !.collected = [id \in SongIds |->
                                    IF id \in DOMAIN collected
                                    THEN Len(collected[id]) ELSE 0],
                   !.ownScore = IF own \in DOMAIN collected
                                THEN scoreMatch(collected[own]) ELSE 0,
                   !.regAtLookup = registered,
                   !.comAtLookup = committedSongs]
       IN  IF DOMAIN matches = {}
           THEN /\ SetQry(q, [r EXCEPT !.pc = "done", !.result = EmptySongInfo])
                /\ dbMutex' = Free
           ELSE /\ SetQry(q, [r EXCEPT !.pc = "bestMatch"])
                /\ UNCHANGED dbMutex
    /\ UNCHANGED <<dbVars, reg, registered, committedSongs, hashVars, matchVars, cliVars, moreVars>>

\* bestSongId = bestMatch(matches); empty -> return SongInfo();
\* return db->getInfoForSongId(bestSongId)
QryBestMatch(q) ==
    /\ qry[q].pc = "bestMatch"
    /\ LET bestSongId == bestMatch(qry[q].matches)
       IN  IF bestSongId = <<>>
           THEN SetQry(q, [qry[q] EXCEPT !.pc = "done", !.result = EmptySongInfo])
           ELSE SetQry(q, [qry[q] EXCEPT
                             !.pc = "done",
                             !.result = getInfoForSongId(isOpen, songInfoTable, bestSongId),
                             !.resultScore = scoreMatch(qry[q].matches[bestSongId])])
    /\ dbMutex' = Free
    /\ UNCHANGED <<dbVars, reg, registered, committedSongs, hashVars, matchVars, cliVars, moreVars>>

\* ------------------------------------------------------------------------
\* The ingest/lookup specification
\* ------------------------------------------------------------------------
RegNext(W) ==
    \/ \E w \in W, f \in Files : RegCall(w, f)
    \/ \E w \in W : RegLock(w)
    \/ \E w \in W : RegSongInDb(w)
    \/ \E w \in W : RegFingerprint(w)
    \/ \E w \in W : StoreEnter(w)
    \/ \E w \in W, ok \in BOOLEAN : StoreBegin(w, ok)
    \/ \E w \in W, outcome \in {"ok", "infoPrepare", "infoStep"} :
           StoreInfo(w, outcome)
    \/ \E w \in W, ok \in BOOLEAN : StoreHashPrepare(w, ok)
    \/ \E w \in W, ok \in BOOLEAN : StoreHash(w, ok)
    \/ \E w \in W, ok \in BOOLEAN : StoreCommit(w, ok)
    \/ \E w \in W : StoreRollback(w)
    \/ \E w \in W : RegReturn(w)

QryNext ==
    \/ \E q \in Queriers, f \in Files : QryCall(q, f)
    \/ \E q \in Queriers : QryLock(q)
    \/ \E q \in Queriers : QryGetMatches(q)
    \/ \E q \in Queriers : QryBestMatch(q)

\* batch ingest: the worker threads of registerDirectory call registerSong
Next == RegNext(Workers)

Spec == Init /\ [][Next]_vars

\* every ingest thread that can take a step eventually takes one
FairSpec == Spec /\ \A w \in Workers : WF_vars(RegNext({w}))

\* one ingest thread and the query threads of the recognition service
LookupNext == RegNext({"w1"}) \/ QryNext

LookupSpec == Init /\ [][LookupNext]_vars

\* ------------------------------------------------------------------------
\* The hasher specification: hashPointsOptimized applied to a peak list
\* ------------------------------------------------------------------------
\* 440.00 Hz, 440.05 Hz (same value after * 10 and truncation) and
\* 2078.40 Hz (same value as 440.00 Hz after the 14-bit mask)
PeakFreqs == {44000, 44005, 207840}
\* 0 s, 0.0904 s, 0.1808 s, 0.5 s (0.5 s * 10000 = 5000 exceeds 12 bits)
PeakTimes == {0, 9040, 18080, 50000}
PeakAmps == {1}
HashPeaks == {Peak(f, t, a) : f \in PeakFreqs, t \in PeakTimes, a \in PeakAmps}

\* peak lists: distinct spectrogram peaks, in any order
PeakLists ==
    UNION {{s \in [1..n -> HashPeaks] :
               \A i, k \in 1..n : i # k => s[i] # s[k]} : n \in 0..MaxPeaks}

InitHash ==
    /\ hpeaks \in PeakLists
    /\ hfile \in Files
    /\ tieOrder \in TieOrders
    /\ hout = <<>>
    /\ hpc = "ready"

HashPoints ==
    /\ hpc = "ready"
    /\ hout' = hashPointsOptimized(hpeaks, hfile, tieOrder)
    /\ hpc' = "done"
    /\ UNCHANGED <<dbVars, threadVars, hpeaks, hfile, tieOrder, matchVars, cliVars, moreVars>>

HashNext == HashPoints

HashInit == InitDb /\ InitThreads /\ InitHash /\ InitMatchOff /\ InitCli /\ InitMore

HashSpec == HashInit /\ [][HashNext]_vars

\* ------------------------------------------------------------------------
\* Properties of the hasher (checked under HashSpec)
\* ------------------------------------------------------------------------
\* the anchor/target pairs hashPointsOptimized visits, as index pairs
\* <<anchor index, position in the anchor's target zone>>
VisitedPairs ==
    {<<i, k>> \in (1..MaxAnchors(Len(hpeaks))) \X (1..TARGET_ZONE_POINTS) :
        k <= Len(getTargetZoneOptimized(hpeaks[i], hpeaks, tieOrder))}

PairTarget(pr) == getTargetZoneOptimized(hpeaks[pr[1]], hpeaks, tieOrder)[pr[2]]

\* C8: for every peak list and file name, the list returned by
\* hashPointsOptimized holds no two entries with the same hash value.
C8_NoDuplicateHashes ==
    hpc = "done" =>
        \A i, k \in DOMAIN hout : i # k => hout[i].hash # hout[k].hash

\* C8 witness: a run in which two visited pairs produced the same hash, so
\* the deduplication had something to drop
C8_Witness ==
    /\ hpc = "done"
    /\ Len(hout) > 0
    /\ Cardinality(VisitedPairs) > Len(hout)

\* the hash of section 4.4 computed with integer arithmetic:
\* f1 * 2^26 + f2 * 2^12 + dt, as <<high limb, low limb>>
ArithmeticHash(a, p) ==
    LET f1 == (a.frequency \div 10) % 16384
        f2 == (p.frequency \div 10) % 16384
        dt == ((p.time - a.time) \div 10) % 4096
    IN  <<f1, f2 * 4096 + dt>>

\* C9: for every anchor/target pair, hashPointPairEnhanced returns
\* ((f1 << 26) | (f2 << 12) | dt) & 0xFFFFFFFFFF with f1, f2 the 14-bit
\* truncations of freq * 10 and dt the 12-bit truncation of the time
\* difference * 10000; every emitted hash h satisfies 0 <= h < 2^40 and is
\* the hash of a visited pair.
C9_HashFormulaAndRange ==
    hpc = "done" =>
        /\ \A pr \in VisitedPairs :
              hashPointPairEnhanced(hpeaks[pr[1]], PairTarget(pr))
                  = ArithmeticHash(hpeaks[pr[1]], PairTarget(pr))
        /\ \A i \in DOMAIN hout :
              /\ hout[i].hash[1] >= 0 /\ hout[i].hash[1] < 16384
              /\ hout[i].hash[2] >= 0 /\ hout[i].hash[2] < Limb
              /\ \E pr \in VisitedPairs :
                    /\ hout[i].hash = ArithmeticHash(hpeaks[pr[1]], PairTarget(pr))
                    /\ hout[i].timeOffset = hpeaks[pr[1]].time

\* C9 witness: a fingerprint was emitted for a pair whose frequency and
\* time difference both exceed their bit fields (the masks cut them)
C9_Witness ==
    /\ hpc = "done"
    /\ \E pr \in VisitedPairs :
          /\ hpeaks[pr[1]].frequency \div 10 >= 16384
          /\ (PairTarget(pr).time - hpeaks[pr[1]].time) \div 10 >= 4096
          /\ \E i \in DOMAIN hout :
                hout[i].hash = ArithmeticHash(hpeaks[pr[1]], PairTarget(pr))

\* ------------------------------------------------------------------------
\* Properties of storeSong and registerSong (checked under Spec / FairSpec)
\* ------------------------------------------------------------------------
Returned(w) == reg[w].pc = "storeRet"

FingerprintRows(f) ==
    [k \in DOMAIN FingerprintTable[f] |-> HashRow(FingerprintTable[f][k])]

RECURSIVE SumFingerprints(_)
SumFingerprints(fs) ==
    IF fs = {} THEN 0
    ELSE LET f == CHOOSE x \in fs : TRUE
         IN  Len(FingerprintTable[f]) + SumFingerprints(fs \ {f})

\* C1: storeSong is atomic per song: after a call that returned false,
\* whichever step failed on whichever attempt, neither table (as the
\* connection sees it, and as committed) holds a row for the call's song_id
\* that was not there before the call.
C1_FailedStoreLeavesNoRows ==
    \A w \in Workers :
        (Returned(w) /\ reg[w].storeRet = "false") =>
            LET id == reg[w].songInfo.songId
            IN  /\ {r \in songInfoTable : r.songId = id} \subseteq reg[w].pre.info
                /\ {r \in durSongInfo : r.songId = id} \subseteq reg[w].pre.info
                /\ RowsOfSong(hashTable, id) = reg[w].pre.hashes
                /\ RowsOfSong(durHashTable, id) = reg[w].pre.hashes

\* C1 witness: a call returned false after an attempt had inserted the
\* song_info row and hash rows and then failed (at an insert or at COMMIT)
C1_Witness ==
    \E w \in Workers :
        /\ Returned(w) /\ reg[w].storeRet = "false"
        /\ reg[w].undone

C4_RetryDiscipline ==
    \A w \in Workers :
        LET r == reg[w]
        IN  /\ r.begins <= maxRetries
            /\ Len(r.sleeps) = (IF r.begins > 0 THEN r.begins - 1 ELSE 0)
            /\ \A k \in DOMAIN r.sleeps : r.sleeps[k] = 100 * k
            /\ (Returned(w) /\ r.storeRet = "true") =>
                   /\ r.begins = r.failed + 1
                   /\ r.songInfo.songId \in {row.songId : row \in durSongInfo}
            /\ (Returned(w) /\ r.storeRet = "false") =>
                   /\ r.begins = maxRetries
                   /\ r.failed = maxRetries

\* C4 witness: a call returned false after three failed attempts, one of
\* them after inserting rows, having waited 100 ms and 200 ms
C4_Witness ==
    \E w \in Workers :
        /\ Returned(w) /\ reg[w].storeRet = "false"
        /\ reg[w].failed = 3 /\ reg[w].undone
        /\ reg[w].sleeps = <<100, 200>>

\* C5: when the first two attempts fail and the third meets no fault,
\* storeSong returns true and total_hashes has grown by exactly the number
\* of fingerprints supplied (rows of the failed attempts are not counted).
C5_ThirdAttemptCountsOnce ==
    \A w \in Workers :
        (Returned(w) /\ reg[w].failed = 2) =>
            /\ reg[w].storeRet = "true"
            /\ getTotalHashes(isOpen, hashTable)
                  = reg[w].pre.total + Len(reg[w].hashes)
            /\ getTotalHashes(isOpen, durHashTable)
                  = reg[w].pre.total + Len(reg[w].hashes)

\* C5 witness: two attempts failed, rows had been inserted and rolled
\* back, and the third attempt committed, on a non-empty index
C5_Witness ==
    \E w \in Workers :
        /\ Returned(w) /\ reg[w].storeRet = "true"
        /\ reg[w].failed = 2 /\ reg[w].undone
        /\ reg[w].pre.total > 0

\* a storeSong transaction of thread w is open on the connection
TxnOpen(w) ==
    reg[w].pc \in {"info", "hashPrepare", "hashes", "commit", "rollback"}

\* C6: store operations serialize: at most one storeSong transaction is
\* open at any time, and every registerSong call of every worker thread
\* eventually completes.
C6_StoresSerializeAndComplete ==
    /\ [](Cardinality({w \in Workers : TxnOpen(w)}) <= 1)
    /\ [](\A w \in Workers : TxnOpen(w) => (inTxn /\ dbMutex = w))
    /\ \A w \in Workers : (reg[w].pc # "idle") ~> (reg[w].pc = "idle")

\* C6 witness: one worker is inside its transaction while the other waits
\* for the mutex with its own registerSong call
C6_Witness ==
    \E w, v \in Workers :
        /\ w # v
        /\ reg[w].pc = "hashes" /\ reg[w].j > 1
        /\ reg[v].pc = "lock"

\* ------------------------------------------------------------------------
\* Properties of lookups concurrent with ingest (checked under LookupSpec)
\* ------------------------------------------------------------------------
HashSet(hashes) == {hashes[i].hash : i \in DOMAIN hashes}

C7_LookupTakesNoIngestLock ==
    \A q \in Queriers :
        qry[q].pc \in {"getMatches", "bestMatch"} => dbMutex # q

MatchSongIds == {generateSongIdFromPath("a.wav"), generateSongIdFromPath("b.wav")}
MatchHashes == {<<0, 1>>, <<0, 2>>}
\* stored anchor times 0 s, 0.3 s, 0.6 s; query anchor times 0 s, 0.4 s
RowOffsets == {0, 30000, 60000}
QueryTimes == {0, 40000}
MatchThresholds == {2, DefaultThreshold}

MatchRows ==
    {[hash |-> h, offset |-> d, song_id |-> id] :
        h \in MatchHashes, d \in RowOffsets, id \in MatchSongIds}

\* the rows of a set in one fixed rowid order
RECURSIVE RowSeq(_)
RowSeq(S) ==
    IF S = {} THEN <<>>
    ELSE LET r == CHOOSE x \in S : TRUE IN <<r>> \o RowSeq(S \ {r})

MatchTables == {RowSeq(S) : S \in {T \in SUBSET MatchRows : Cardinality(T) <= MaxRows}}

\* query lists: any fingerprints, the same hash may occur more than once
MatchQueries ==
    UNION {[1..n -> {HashResult(h, t, generateSongId("c.wav")) :
                        h \in MatchHashes, t \in QueryTimes}] : n \in 0..MaxQueryLen}

InitMatch ==
    /\ mTable \in MatchTables
    /\ mQuery \in MatchQueries
    /\ mThreshold \in MatchThresholds
    /\ mCollected = EmptyMatches
    /\ mMatches = EmptyMatches
    /\ mBest = <<>>
    /\ mpc = "ready"

\* db->getMatches(hashes, threshold) on an open database
MatchGetMatches ==
    /\ mpc = "ready"
    /\ mCollected' = IF mQuery = <<>> THEN EmptyMatches
                     ELSE CollectMatches(mTable, mQuery)
    /\ mMatches' = getMatches(TRUE, mTable, mQuery, mThreshold)
    /\ mpc' = "matched"
    /\ UNCHANGED <<dbVars, threadVars, hashVars, mTable, mQuery, mThreshold,
                   mBest, cliVars, moreVars>>

\* bestMatch(matches)
MatchBestMatch ==
    /\ mpc = "matched"
    /\ mBest' = bestMatch(mMatches)
    /\ mpc' = "done"
    /\ UNCHANGED <<dbVars, threadVars, hashVars, mTable, mQuery, mThreshold,
                   mCollected, mMatches, cliVars, moreVars>>

MatchNext == MatchGetMatches \/ MatchBestMatch

MatchInit == InitDb /\ InitThreads /\ InitHashOff /\ InitMatch /\ InitCli /\ InitMore

MatchSpec == MatchInit /\ [][MatchNext]_vars

\* ------------------------------------------------------------------------
\* Properties of the matcher (checked under MatchSpec)
\* ------------------------------------------------------------------------
\* the entries of the group of id that are the pair (d, t)
CollectedPairs(id, d, t) ==
    IF id \in DOMAIN mCollected
    THEN {k \in DOMAIN mCollected[id] : mCollected[id][k] = MatchOffset(d, t)}
    ELSE {}

\* the pairs of a query fingerprint (h, t) and a stored row (h, d, id)
FingerprintRowPairs(id, d, t) ==
    {pr \in (DOMAIN mQuery) \X (DOMAIN mTable) :
        /\ mQuery[pr[1]].hash = mTable[pr[2]].hash
        /\ mQuery[pr[1]].timeOffset = t
        /\ mTable[pr[2]].song_id = id
        /\ mTable[pr[2]].offset = d}

\* C11: before the threshold filter, getMatches holds exactly one pair
\* (row.offset, t_q) in the group of row.song_id for every pair of a query
\* fingerprint (h, t_q) and a stored row with hash h, also when several
\* query fingerprints carry the same hash.
C11_OnePairPerFingerprintAndRow ==
    mpc \in {"matched", "done"} =>
        \A id \in MatchSongIds, d \in RowOffsets, t \in QueryTimes :
            Cardinality(CollectedPairs(id, d, t))
                = Cardinality(FingerprintRowPairs(id, d, t))

GroupSize(id) == IF id \in DOMAIN mCollected THEN Len(mCollected[id]) ELSE 0

\* C12: the map getMatches returns contains a song_id exactly when at least
\* threshold offset pairs were collected for it, and a returned group is the
\* collected group.
C12_ThresholdFilter ==
    mpc \in {"matched", "done"} =>
        \A id \in MatchSongIds :
            /\ (id \in DOMAIN mMatches) <=> (GroupSize(id) >= mThreshold)
            /\ (id \in DOMAIN mMatches) =>
                  /\ mMatches[id] = mCollected[id]
                  /\ Len(mMatches[id]) >= mThreshold

\* C12 witness: a song with exactly threshold collected pairs was returned
\* and a song with threshold - 1 collected pairs was dropped
C12_Witness ==
    /\ mpc = "matched"
    /\ \E id, other \in MatchSongIds :
          /\ id \in DOMAIN mMatches
          /\ GroupSize(id) = mThreshold
          /\ other \notin DOMAIN mMatches
          /\ GroupSize(other) = mThreshold - 1

\* floor(delta / 0.5)
FloorBin(delta) == delta \div binWidth

\* the tallest bin of the histogram over floor(delta / 0.5)
FloorScore(offsets) ==
    LET delta(i) == offsets[i].dbOffset - offsets[i].sampleOffset
        bins == {FloorBin(delta(i)) : i \in DOMAIN offsets}
    IN  SetMax({Cardinality({i \in DOMAIN offsets : FloorBin(delta(i)) = b}) :
                   b \in bins})

\* C13: for every non-empty offset list scoreMatch returns the largest
\* number of offsets whose delta falls into the same bin floor(delta / 0.5),
\* negative deltas included.
C13_ScoreIsTallestFloorBin ==
    mpc \in {"matched", "done"} =>
        \A id \in DOMAIN mCollected :
            scoreMatch(mCollected[id]) = FloorScore(mCollected[id])

\* C14: bestMatch returns a candidate whose scoreMatch value is the maximum
\* over all candidates (none only for an empty lookup result), and
\* 1 <= scoreMatch(offsets) <= |offsets| for every candidate.
C14_BestMatchHasMaxScore ==
    mpc = "done" =>
        /\ \A id \in DOMAIN mMatches :
              /\ 1 <= scoreMatch(mMatches[id])
              /\ scoreMatch(mMatches[id]) <= Len(mMatches[id])
        /\ (DOMAIN mMatches = {}) <=> (mBest = <<>>)
        /\ (DOMAIN mMatches # {}) =>
              /\ mBest \in DOMAIN mMatches
              /\ \A id \in DOMAIN mMatches :
                    scoreMatch(mMatches[mBest]) >= scoreMatch(mMatches[id])

\* C14 witness: the second candidate in key order was skipped because it
\* has fewer matches than the score of the first, which won
C14_Witness ==
    /\ mpc = "done"
    /\ Cardinality(DOMAIN mMatches) = 2
    /\ LET order == SortedIds(DOMAIN mMatches)
       IN  /\ mBest = order[1]
           /\ Len(mMatches[order[2]]) < scoreMatch(mMatches[order[1]])

\* the candidates with the largest score
TopScored ==
    {id \in DOMAIN mMatches :
        \A other \in DOMAIN mMatches :
            scoreMatch(mMatches[id]) >= scoreMatch(mMatches[other])}

\* C15: among the candidates with the largest score bestMatch returns the
\* one with the largest match count, and among those with equal match count
\* the lexicographically smallest song_id.
C15_TieBreakByMatchCount ==
    (mpc = "done" /\ DOMAIN mMatches # {}) =>
        /\ mBest \in TopScored
        /\ \A id \in TopScored :
              \/ Len(mMatches[mBest]) > Len(mMatches[id])
              \/ /\ Len(mMatches[mBest]) = Len(mMatches[id])
                 /\ (mBest = id \/ StrLess(mBest, id))

MissingFiles == {"x.wav"}

\* registerDirectory: getSupportedFiles keeps the regular files with a
\* supported extension, and registerSong is called for each of them
registerDirectoryCall(w, f) ==
    /\ isSupportedExtension(f)
    /\ RegCall(w, f)

\* main, command recognize: the file does not exist -> return 1
MainRecognizeNoFile(q, f) ==
    /\ qry[q].pc = "idle"
    /\ qry[q].queries < MaxQueries
    /\ f \in MissingFiles
    /\ SetQry(q, [QryInit EXCEPT !.pc = "exited", !.filename = f,
                                 !.queries = qry[q].queries + 1])
    /\ exitCode' = [exitCode EXCEPT ![q] = 1]
    /\ UNCHANGED <<dbVars, dbMutex, reg, registered, committedSongs,
                   hashVars, matchVars, moreVars>>

\* main, command recognize: result = recognizer.recognizeSong(filename)
MainRecognizeCall(q, f) == QryCall(q, f)

\* main, command recognize, after recognizeSong returned: the result is
\* printed and control reaches the final return 0
MainRecognizeReturn(q) ==
    /\ qry[q].pc = "done"
    /\ SetQry(q, [qry[q] EXCEPT !.pc = "exited"])
    /\ exitCode' = [exitCode EXCEPT ![q] = 0]
    /\ UNCHANGED <<dbVars, dbMutex, reg, registered, committedSongs,
                   hashVars, matchVars, moreVars>>

CliNext ==
    \/ \E f \in DirEntries : registerDirectoryCall("w1", f)
    \/ RegNext({"w1"})
    \/ \E q \in Queriers, f \in DirEntries : MainRecognizeCall(q, f)
    \/ \E q \in Queriers, f \in MissingFiles : MainRecognizeNoFile(q, f)
    \/ QryNext
    \/ \E q \in Queriers : MainRecognizeReturn(q)

CliSpec == Init /\ [][CliNext]_vars

\* ------------------------------------------------------------------------
\* Properties of the commands (checked under CliSpec)
\* ------------------------------------------------------------------------
ShortFiles == {f \in DirEntries : isSupportedFormat(f) /\ AudioSamples(f) < 10 * SAMPLE_RATE}

\* C17: for audio shorter than 10 seconds fingerprintFileParallelOptimized
\* returns an empty list; registerSong of such a file returns false without
\* entering storeSong and no step of it changes the tables, which never
\* hold a row of the file; recognizeSong of such a file returns the no-match
\* result without calling getMatches.
C17_ShortAudioIsSkipped ==
    /\ [](\A f \in ShortFiles :
            /\ fingerprintFileParallelOptimized(f) = <<>>
            /\ CountSongInfo(songInfoTable, generateSongIdFromPath(f)) = 0
            /\ RowsOfSong(hashTable, generateSongIdFromPath(f)) = <<>>
            /\ f \notin registered)
    /\ [](\A w \in Workers :
            reg[w].filename \in ShortFiles =>
                /\ reg[w].pc \in {"lock", "songInDb", "fingerprint", "idle"}
                /\ reg[w].pc = "idle" => reg[w].ret = "false")
    /\ [][\A w \in Workers :
            (reg[w].filename \in ShortFiles /\ reg'[w] # reg[w]
                /\ reg'[w].filename = reg[w].filename) => UNCHANGED dbVars]_vars
    /\ [](\A q \in Queriers :
            (qry[q].filename \in ShortFiles /\ qry[q].pc \in {"done", "exited"}) =>
                /\ qry[q].result = EmptySongInfo
                /\ ~qry[q].looked)

\* C17 witness: on a non-empty catalog registerSong of the short clip has
\* returned false and recognizeSong of the short clip has returned
C17_Witness ==
    /\ durHashTable # <<>>
    /\ \E w \in Workers :
          /\ reg[w].filename \in ShortFiles
          /\ reg[w].pc = "idle" /\ reg[w].ret = "false"
    /\ \E q \in Queriers :
          /\ qry[q].filename \in ShortFiles
          /\ qry[q].pc = "done"

\* C18: every file the directory scan accepts whose audio lasts at least
\* 10 seconds is accepted by the fingerprinter (a non-empty fingerprint
\* list) and is in the catalog when registerSong returned true.
C18_ScannedFilesAreIngested ==
    \A w \in Workers :
        LET f == reg[w].filename
        IN  (/\ reg[w].calls > 0
             /\ isSupportedExtension(f)
             /\ AudioSamples(f) >= 10 * SAMPLE_RATE) =>
                /\ (reg[w].pc = "fingerprint") =>
                       fingerprintFileParallelOptimized(f) # <<>>
                /\ (reg[w].pc = "idle" /\ reg[w].ret = "true") => songInDb(f)

\* C19: the exit status of recognize reflects the result: 0 when
\* recognizeSong returned a match, 1 when it returned no match.
C19_ExitStatusReflectsResult ==
    \A q \in Queriers :
        (qry[q].pc = "exited" /\ qry[q].filename \in DirEntries) =>
            /\ (qry[q].result.songId # <<>>) => exitCode[q] = 0
            /\ (qry[q].result.songId = <<>>) => exitCode[q] = 1

\* ------------------------------------------------------------------------
\* The anchor time kept by the deduplication (checked under HashSpec)
\* ------------------------------------------------------------------------
\* the anchor times of the visited pairs that produce hash h
AnchorTimesOfHash(h) ==
    {hpeaks[pr[1]].time : pr \in
        {v \in VisitedPairs :
            ToLong(hashPointPairEnhanced(hpeaks[v[1]], PairTarget(v))) = h}}

\* C20: when several anchor/target pairs produce the same hash, the one
\* fingerprint emitted for that hash carries the smallest anchor time among
\* those pairs, whatever order the peak list is handed to
\* hashPointsOptimized in.
C20_EarliestAnchorTime ==
    hpc = "done" =>
        \A i \in DOMAIN hout :
            \A t \in AnchorTimesOfHash(hout[i].hash) : hout[i].timeOffset <= t

\* ------------------------------------------------------------------------
\* The target zone specification: getTargetZoneOptimized applied to an
\* anchor (the first peak of the list) and the whole list
\* ------------------------------------------------------------------------
\* 1000 Hz at 0 s
ZoneAnchor == Peak(100000, 0, 9)

\* six peaks inside the zone of the anchor, four of them on its borders
\* (0.02 s, 0.52 s, 750 Hz, 1250 Hz), five of them of equal amplitude, and
\* a strong peak just before the zone
ZoneCandidates ==
    {Peak(100000, 2000, 2), Peak(100000, 52000, 2), Peak(75000, 10000, 2),
     Peak(125000, 10000, 2), Peak(100000, 10000, 3), Peak(100000, 20000, 2),
     Peak(100000, 1999, 5)}

ZoneLists ==
    UNION {{<<ZoneAnchor>> \o c : c \in
               {x \in [1..n -> ZoneCandidates] :
                   \A i, k \in 1..n : i # k => x[i] # x[k]}} : n \in 0..MaxZonePeaks}

InitZone ==
    /\ hpeaks \in ZoneLists
    /\ hfile = "a.wav"
    /\ tieOrder \in TieOrders
    /\ hout = <<>>
    /\ hpc = "zoneReady"

\* targetPeaks = getTargetZoneOptimized(anchor, peaks)
ZoneTargets ==
    /\ hpc = "zoneReady"
    /\ hout' = getTargetZoneOptimized(hpeaks[1], hpeaks, tieOrder)
    /\ hpc' = "zoneDone"
    /\ UNCHANGED <<dbVars, threadVars, hpeaks, hfile, tieOrder, matchVars,
                   cliVars, moreVars>>

ZoneNext == ZoneTargets

ZoneInit == InitDb /\ InitThreads /\ InitZone /\ InitMatchOff /\ InitCli /\ InitMore

ZoneSpec == ZoneInit /\ [][ZoneNext]_vars

\* ------------------------------------------------------------------------
\* Properties of the target zone (checked under ZoneSpec)
\* ------------------------------------------------------------------------
\* larger amplitude first, ties: earlier time, then lower frequency
RanksBefore(p, q) ==
    \/ p.amplitude > q.amplitude
    \/ /\ p.amplitude = q.amplitude
       /\ \/ p.time < q.time
          \/ p.time = q.time /\ p.frequency < q.frequency

\* the peaks with a.time + 0.02 <= p.time <= a.time + 0.52 and
\* a.freq - 250 <= p.freq <= a.freq + 250, cut to the five best ranked
RankedZone(a, peaks) ==
    LET qualifying == {p \in {peaks[i] : i \in DOMAIN peaks} :
                          /\ a.time + 2000 <= p.time /\ p.time <= a.time + 52000
                          /\ a.frequency - 25000 <= p.frequency
                          /\ p.frequency <= a.frequency + 25000}
    IN  IF Cardinality(qualifying) <= 5 THEN qualifying
        ELSE {p \in qualifying :
                 Cardinality({q \in qualifying : RanksBefore(q, p)}) < 5}

\* C21: getTargetZoneOptimized returns exactly the peaks of the zone when at
\* most five qualify, and otherwise the five of largest amplitude, ties
\* decided by earlier time and then lower frequency, for every ordering of
\* the input list.
C21_ZoneIsRankedTopFive ==
    hpc = "zoneDone" =>
        /\ {hout[i] : i \in DOMAIN hout} = RankedZone(hpeaks[1], hpeaks)
        /\ Len(hout) = Cardinality(RankedZone(hpeaks[1], hpeaks))

\* ------------------------------------------------------------------------
\* The anchors of hashPointsOptimized (checked under HashSpec)
\* ------------------------------------------------------------------------
\* C28: hashPointsOptimized uses every peak of its input list as an anchor:
\* for each peak a and each peak p retained in a's target zone the hash of
\* (a, p) occurs in the output, wherever a stands in the list.
C28_EveryPeakIsAnAnchor ==
    hpc = "done" =>
        \A i \in DOMAIN hpeaks :
            LET targetPeaks == getTargetZoneOptimized(hpeaks[i], hpeaks, tieOrder)
            IN  \A k \in DOMAIN targetPeaks :
                    \E n \in DOMAIN hout :
                        hout[n].hash = ToLong(hashPointPairEnhanced(hpeaks[i], targetPeaks[k]))

\* ------------------------------------------------------------------------
\* The long path of fingerprintFileParallelOptimized (audio longer than
\* 60 s): the chunks, and the merge of the peaks the chunk workers return
\* ------------------------------------------------------------------------
\* const size_t overlapSize = SAMPLE_RATE * 2
overlapSize == SAMPLE_RATE * 2

\* std::min(size_t(4), size_t(std::thread::hardware_concurrency()))
numThreads(hw) == IF hw < 4 THEN hw ELSE 4

\* <<start, end>> of chunk i (counted from 0) of n
ChunkOf(size, n, i) ==
    LET chunkSize == size \div n
        start == IF i = 0 THEN 0 ELSE i * chunkSize - overlapSize
        end == IF i = n - 1 THEN size ELSE (i + 1) * chunkSize + overlapSize
    IN  <<start, IF end < size THEN end ELSE size>>

ChunkBounds(size, n) == [k \in 1..n |-> ChunkOf(size, n, k - 1)]

\* std::sort with the comparator a.time < b.time; the order of peaks of
\* equal time is unspecified (tie as in SortByAmplitude)
TimeBefore(s, i, j, tie) ==
    \/ s[i].time < s[j].time
    \/ /\ s[i].time = s[j].time
       /\ IF tie = "keep" THEN i < j ELSE i > j

RECURSIVE SortTimeIdx(_, _, _)
SortTimeIdx(s, rest, tie) ==
    IF rest = {} THEN <<>>
    ELSE LET first == CHOOSE i \in rest :
                          \A j \in rest \ {i} : TimeBefore(s, i, j, tie)
         IN  <<s[first]>> \o SortTimeIdx(s, rest \ {first}, tie)

SortByTime(s, tie) == SortTimeIdx(s, DOMAIN s, tie)

Abs(x) == IF x < 0 THEN -x ELSE x

\* a test that looks at the time distance only
PeakIsDuplicateTimeOnly(peak, existing) ==
    Abs(peak.time - existing.time) < 10000

\* timeThreshold = 0.1 s, freqThreshold = 50 Hz
PeakIsDuplicate(peak, existing) ==
    /\ Abs(peak.time - existing.time) < 10000
    /\ Abs(peak.frequency - existing.frequency) < 5000

\* the loop over allPeaks that fills dedupedPeaks
RECURSIVE DedupPeaks(_, _, _)
DedupPeaks(allPeaks, k, dedupedPeaks) ==
    IF k > Len(allPeaks) THEN dedupedPeaks
    ELSE LET isDuplicate == \E e \in DOMAIN dedupedPeaks :
                                PeakIsDuplicate(allPeaks[k], dedupedPeaks[e])
         IN  DedupPeaks(allPeaks, k + 1,
                        IF isDuplicate THEN dedupedPeaks
                        ELSE Append(dedupedPeaks, allPeaks[k]))

\* audio.size() of clips longer than 60 s: 60 s and one sample, 120 s
LongSizes == {60 * SAMPLE_RATE + 1, 120 * SAMPLE_RATE}
\* hardware_concurrency() may return 0 when it cannot be determined
HwValues == 0..5

\* 0 s, 0.05 s, 0.1 s and 440 Hz, 480 Hz, 490 Hz
MergeTimes == {0, 5000, 10000}
MergeFreqs == {44000, 48000, 49000}
MergePeaks == {Peak(f, t, 1) : f \in MergeFreqs, t \in MergeTimes}

\* what the futures return, concatenated: any peaks, in any order, the same
\* peak possibly reported by two overlapping chunks
MergedLists == UNION {[1..n -> MergePeaks] : n \in 0..MaxMerged}

InitLong ==
    /\ lSamples \in LongSizes
    /\ lHw \in HwValues
    /\ lChunks = <<>>
    /\ lPeaks \in MergedLists
    /\ lTie \in TieOrders
    /\ lSorted = <<>>
    /\ lDeduped = <<>>
    /\ lpc = "ready"

\* the chunk loop.  With hardware_concurrency() = 0 the division
\* audio.size() / numThreads has undefined behaviour: the process traps, or
\* the quotient is some value and the loop body never runs
LongChunk(outcome) ==
    /\ lpc = "ready"
    /\ IF numThreads(lHw) = 0
       THEN /\ outcome \in {"trap", "noChunks"}
            /\ lChunks' = <<>>
            /\ lpc' = IF outcome = "trap" THEN "crashed" ELSE "chunked"
       ELSE /\ outcome = "ok"
            /\ lChunks' = ChunkBounds(lSamples, numThreads(lHw))
            /\ lpc' = "chunked"
    /\ UNCHANGED <<dbVars, threadVars, hashVars, matchVars, cliVars,
                   temporalVars, dirVars, openVars,
                   lSamples, lHw, lPeaks, lTie, lSorted, lDeduped>>

\* collect the peaks of the futures, sort by time, drop the duplicates
LongMerge ==
    /\ lpc = "chunked"
    /\ LET allPeaks == IF lChunks = <<>> THEN <<>> ELSE lPeaks
       IN  /\ lSorted' = SortByTime(allPeaks, lTie)
           /\ lDeduped' = DedupPeaks(SortByTime(allPeaks, lTie), 1, <<>>)
    /\ lpc' = "merged"
    /\ UNCHANGED <<dbVars, threadVars, hashVars, matchVars, cliVars,
                   temporalVars, dirVars, openVars,
                   lSamples, lHw, lChunks, lPeaks, lTie>>

LongNext ==
    \/ \E outcome \in {"ok", "trap", "noChunks"} : LongChunk(outcome)
    \/ LongMerge

LongInit ==
    /\ InitDb /\ InitThreads /\ InitHashOff /\ InitMatchOff /\ InitCli
    /\ InitTemporalOff /\ InitLong /\ InitDirOff /\ InitOpened

LongSpec == LongInit /\ [][LongNext]_vars

\* ------------------------------------------------------------------------
\* Properties of the long path (checked under LongSpec)
\* ------------------------------------------------------------------------
\* C22: the long path splits the samples into W chunks with
\* 1 <= W <= min(4, hardware_parallelism), the chunks together cover every
\* sample, and two adjacent chunks share exactly 2 seconds (2 * 22050
\* samples) of audio.
C22_ChunksOverlapTwoSeconds ==
    (lpc \in {"chunked", "merged"} /\ lHw >= 1) =>
        LET W == Len(lChunks)
        IN  /\ 1 <= W /\ W <= 4 /\ W <= lHw
            /\ lChunks[1][1] = 0
            /\ lChunks[W][2] = lSamples
            /\ \A i \in 1..(W - 1) :
                  /\ lChunks[i + 1][1] <= lChunks[i][2]
                  /\ lChunks[i][2] - lChunks[i + 1][1] = 2 * 22050

\* the i-th, j-th, ... elements of s for the indices of K, in order
RECURSIVE SubSeqAt(_, _)
SubSeqAt(s, K) ==
    IF K = {} THEN <<>>
    ELSE LET last == CHOOSE k \in K : \A j \in K : j <= k
         IN  Append(SubSeqAt(s, K \ {last}), s[last])

\* less than 0.1 s apart in time and less than 50 Hz apart in frequency
TooClose(p, q) ==
    /\ p.time - q.time < 10000 /\ q.time - p.time < 10000
    /\ p.frequency - q.frequency < 5000 /\ q.frequency - p.frequency < 5000

\* C23: the merged peaks are put in time order; of these, no two retained
\* peaks are both less than 0.1 s and less than 50 Hz apart, and a peak is
\* dropped only when a retained peak that precedes it in time order is that
\* close to it.
C23_DedupKeepsFirstInTimeOrder ==
    lpc = "merged" =>
        /\ Len(lSorted) = Len(IF lChunks = <<>> THEN <<>> ELSE lPeaks)
        /\ \A p \in MergePeaks :
              Cardinality({i \in DOMAIN lSorted : lSorted[i] = p})
                  = Cardinality({i \in DOMAIN lPeaks : lPeaks[i] = p /\ lChunks # <<>>})
        /\ \A i, j \in DOMAIN lSorted : i < j => lSorted[i].time <= lSorted[j].time
        /\ \E K \in SUBSET DOMAIN lSorted :
              /\ lDeduped = SubSeqAt(lSorted, K)
              /\ \A i, j \in K : i # j => ~TooClose(lSorted[i], lSorted[j])
              /\ \A k \in (DOMAIN lSorted) \ K :
                    \E j \in K : j < k /\ TooClose(lSorted[j], lSorted[k])

\* C23 witness: three peaks were merged, one was dropped as a duplicate of
\* an earlier retained peak, and one that is close in time only (50 Hz
\* away) was retained
C23_Witness ==
    /\ lpc = "merged"
    /\ Len(lSorted) = 3
    /\ Len(lDeduped) = 2
    /\ lDeduped[1].time = lDeduped[2].time
    /\ lDeduped[1].frequency - lDeduped[2].frequency \in {5000, -5000}

\* C29: two runs on the same clip with different hardware_concurrency
\* values use the same chunk boundaries and time offsets.
C29_ChunksIndependentOfHardware ==
    (lpc \in {"chunked", "merged"} /\ lHw >= 1) =>
        \A hw \in HwValues \ {0} :
            ChunkBounds(lSamples, numThreads(hw)) = lChunks

\* ------------------------------------------------------------------------
\* PeakDetection.cpp: filterTemporalPeaks
\* ------------------------------------------------------------------------
MAX_PEAKS_PER_SECOND == 15

\* peak.time >= currentWindowStart + timeWindow with timeWindow =
\* 1.0 / MAX_PEAKS_PER_SECOND seconds, times in 1/100000 s
BeyondWindow(time, currentWindowStart) ==
    MAX_PEAKS_PER_SECOND * (time - currentWindowStart) >= 100000

\* sort the window by amplitude and take the first
\* min(size, MAX_PEAKS_PER_SECOND) peaks
TopOfWindow(currentWindowPeaks, tie) ==
    LET sorted == SortByAmplitude(currentWindowPeaks, tie)
        maxPeaksInWindow == IF Len(sorted) < MAX_PEAKS_PER_SECOND
                            THEN Len(sorted) ELSE MAX_PEAKS_PER_SECOND
    IN  SubSeq(sorted, 1, maxPeaksInWindow)

RECURSIVE FilterWindows(_, _, _, _, _, _)
FilterWindows(sortedPeaks, k, currentWindowStart, currentWindowPeaks, filteredPeaks, tie) ==
    IF k > Len(sortedPeaks)
    THEN filteredPeaks \o TopOfWindow(currentWindowPeaks, tie)
    ELSE LET peak == sortedPeaks[k]
         IN  IF BeyondWindow(peak.time, currentWindowStart)
             THEN FilterWindows(sortedPeaks, k + 1, peak.time, <<peak>>,
                                filteredPeaks \o TopOfWindow(currentWindowPeaks, tie),
                                tie)
             ELSE FilterWindows(sortedPeaks, k + 1, currentWindowStart,
                                Append(currentWindowPeaks, peak),
                                filteredPeaks, tie)

filterTemporalPeaks(rawPeaks, tie) ==
    FilterWindows(SortByTime(rawPeaks, tie), 1, 0, <<>>, <<>>, tie)

\* ------------------------------------------------------------------------
\* The temporal filter specification: filterTemporalPeaks applied to a
\* candidate list
\* ------------------------------------------------------------------------
\* candidates 0.06 s apart (two per window), 0.004 s apart (17 fit into one
\* window), or all at the same time
CandidateGaps == {6000, 400, 0}
\* all amplitudes equal, growing along the list, or falling along the list
AmplitudePatterns == {"flat", "rising", "falling"}
RawOrders == {"forward", "backward"}

\* candidate k of n: 0.01 s + (k - 1) * gap, frequencies falling with k
Candidate(k, gap, pattern) ==
    Peak(200000 - 100 * k, 1000 + (k - 1) * gap,
         CASE pattern = "flat" -> 7
           [] pattern = "rising" -> k
           [] OTHER -> 100 - k)

CandidateLists ==
    {[k \in 1..n |-> Candidate(IF order = "forward" THEN k ELSE n + 1 - k,
                               gap, pattern)] :
        n \in 0..MaxCandidates, gap \in CandidateGaps,
        pattern \in AmplitudePatterns, order \in RawOrders}

InitTemporal ==
    /\ tRaw \in CandidateLists
    /\ tTie \in TieOrders
    /\ tOut = <<>>
    /\ tpc = "ready"

TemporalFilter ==
    /\ tpc = "ready"
    /\ tOut' = filterTemporalPeaks(tRaw, tTie)
    /\ tpc' = "done"
    /\ UNCHANGED <<dbVars, threadVars, hashVars, matchVars, cliVars,
                   longVars, dirVars, openVars, tRaw, tTie>>

TemporalNext == TemporalFilter

TemporalInit ==
    /\ InitDb /\ InitThreads /\ InitHashOff /\ InitMatchOff /\ InitCli
    /\ InitTemporal /\ InitLongOff /\ InitDirOff /\ InitOpened

TemporalSpec == TemporalInit /\ [][TemporalNext]_vars

\* ------------------------------------------------------------------------
\* Properties of the temporal filter (checked under TemporalSpec)
\* ------------------------------------------------------------------------
RawSet == {tRaw[i] : i \in DOMAIN tRaw}

\* the start of the window a candidate falls into: the time of the earliest
\* candidate that is not inside an earlier window (the first window starts
\* at 0 s), windows being 1/15 s wide
RECURSIVE WindowStart(_, _)
WindowStart(t, from) ==
    LET later == {p.time : p \in {q \in RawSet : BeyondWindow(q.time, from)}}
    IN  IF ~BeyondWindow(t, from) THEN from
        ELSE WindowStart(t, CHOOSE m \in later : \A x \in later : m <= x)

\* the candidates of p's window ranked before p
BetterInWindow(p) ==
    {q \in RawSet : /\ WindowStart(q.time, 0) = WindowStart(p.time, 0)
                    /\ RanksBefore(q, p)}

\* C24: filterTemporalPeaks keeps from each window of width 1/15 s its 15
\* candidates of largest amplitude (all when the window holds at most 15),
\* ties decided by earlier time and then lower frequency; the output is a
\* subset of the input.
C24_WindowKeepsRankedTop15 ==
    tpc = "done" =>
        /\ {tOut[i] : i \in DOMAIN tOut}
              = {p \in RawSet : Cardinality(BetterInWindow(p)) < 15}
        /\ \A i, j \in DOMAIN tOut : i # j => tOut[i] # tOut[j]

\* C25: the output of filterTemporalPeaks holds at most 15 peaks whose
\* times lie in any interval of length 1 second.
C25_AtMost15PeaksPerSecond ==
    tpc = "done" =>
        \A i \in DOMAIN tOut :
            Cardinality({j \in DOMAIN tOut :
                            /\ tOut[i].time <= tOut[j].time
                            /\ tOut[j].time < tOut[i].time + 100000}) <= 15

\* ------------------------------------------------------------------------
\* Opening the index: Database::open on a Database that is not open
\* ------------------------------------------------------------------------
\* the statements open() hands to executeSQL before it sets isOpen
OpenPragmas ==
    <<"journal_mode=WAL", "synchronous=NORMAL", "cache_size=10000",
      "temp_store=MEMORY">>

\* Database::executeSQL: if (!isOpen || !db) return false; otherwise the
\* statement runs on the connection. open is the value of isOpen at the
\* call (db is non-null once sqlite3_open succeeded); the result is the set
\* of PRAGMA statements executed so far.
executeSQL(open, sql, executed) ==
    IF ~open THEN executed ELSE executed \cup {sql}

RECURSIVE ExecuteAll(_, _, _, _)
ExecuteAll(open, stmts, i, executed) ==
    IF i > Len(stmts) THEN executed
    ELSE ExecuteAll(open, stmts, i + 1, executeSQL(open, stmts[i], executed))

\* Database::open. rc is the result of sqlite3_open, tables the result of
\* setupTables (its CREATE statements run with isOpen already true and can
\* fail in sqlite3_exec).
DatabaseOpen(rc, tables) ==
    /\ openRet = "none"
    /\ IF isOpen
       THEN /\ openRet' = "true"
            /\ UNCHANGED <<isOpen, pragmas>>
       ELSE IF rc # "SQLITE_OK"
       THEN /\ openRet' = "false"
            /\ UNCHANGED <<isOpen, pragmas>>
       ELSE /\ pragmas' = ExecuteAll(isOpen, OpenPragmas, 1, pragmas)
            /\ isOpen' = TRUE
            /\ openRet' = tables
    /\ UNCHANGED <<hashTable, songInfoTable, durHashTable, durSongInfo, inTxn,
                   threadVars, hashVars, matchVars, cliVars,
                   temporalVars, longVars, dirVars>>

\* SongRecognizer::initializeDatabase returns db->open(); the commands of
\* main go on to registerSong only when it returned true
OpenNext ==
    \/ \E rc \in {"SQLITE_OK", "SQLITE_CANTOPEN"}, tables \in {"true", "false"} :
           DatabaseOpen(rc, tables)
    \/ (openRet = "true" /\ RegNext({"w1"}))

\* a Database just constructed: db(nullptr), isOpen(false)
OpenInit ==
    /\ isOpen = FALSE
    /\ hashTable = <<>>
    /\ songInfoTable = {}
    /\ durHashTable = <<>>
    /\ durSongInfo = {}
    /\ inTxn = FALSE
    /\ InitThreads /\ InitHashOff /\ InitMatchOff /\ InitCli
    /\ InitTemporalOff /\ InitLongOff /\ InitDirOff
    /\ pragmas = {}
    /\ openRet = "none"

OpenSpec == OpenInit /\ [][OpenNext]_vars

\* C26: after Database::open() returned true on a Database that was not
\* open, the four PRAGMA statements of open (journal_mode=WAL,
\* synchronous=NORMAL, cache_size, temp_store) have been executed on the
\* connection, so every storeSong and getMatches call runs in WAL mode.
C26_OpenExecutesPragmas ==
    openRet = "true" =>
        pragmas = {OpenPragmas[i] : i \in DOMAIN OpenPragmas}

\* ------------------------------------------------------------------------
\* Correspondence of the hash table and song_info (checked under Spec)
\* ------------------------------------------------------------------------
\* every song_id of a hash row has exactly one song_info row, and every
\* song_info row has at least one hash row
TablesCorrespond(table, infoTable) ==
    /\ \A i \in DOMAIN table : CountSongInfo(infoTable, table[i].song_id) = 1
    /\ \A r \in infoTable : RowsOfSong(table, r.songId) # <<>>

\* C27: after any sequence of registerSong calls (successful, failed,
\* retried, repeated for the same file) every song_id in the hash table has
\* exactly one song_info row and every song_info row has at least one hash
\* row, both in the committed tables and in what the connection sees when
\* no transaction is open; generateSongId and generateSongIdFromPath give
\* the same id for every path.
C27_HashRowsAndSongInfoCorrespond ==
    /\ TablesCorrespond(durHashTable, durSongInfo)
    /\ ~inTxn => TablesCorrespond(hashTable, songInfoTable)
    /\ \A f \in Files \cup OtherFiles :
          generateSongId(f) = generateSongIdFromPath(f)

\* C27 witness: two songs are committed, one ingest thread's repeated call
\* for a registered file has returned, and the other's call has returned
\* false after storeSong gave up on a file that has fingerprints
C27_Witness ==
    \E w, v \in Workers :
        /\ w # v
        /\ Cardinality(durSongInfo) = 2
        /\ ~inTxn
        /\ reg[w].pc = "idle" /\ reg[w].wasRegistered /\ reg[w].ret = "true"
        /\ reg[v].pc = "idle" /\ reg[v].ret = "false"
        /\ fingerprintFileParallelOptimized(reg[v].filename) # <<>>

\* ------------------------------------------------------------------------
\* Batch ingest: SongRecognizer::registerDirectory and its workers
\* ------------------------------------------------------------------------
\* one std::async worker (or the calling thread in the single-threaded
\* branch): its slice [startIdx, endIdx) of supportedFiles (indices from 0),
\* the index of the file it handles next and its success flag
Future(startIdx, endIdx) ==
    [startIdx |-> startIdx, endIdx |-> endIdx, next |-> startIdx,
     success |-> TRUE]

\* a slice end that leaves the remainder out
SliceEndNoRemainder(startIdx, filesPerWorker, i, remainder) ==
    startIdx + filesPerWorker

\* endIdx = startIdx + filesPerWorker + (i < remainder ? 1 : 0)
SliceEnd(startIdx, filesPerWorker, i, remainder) ==
    startIdx + filesPerWorker + (IF i < remainder THEN 1 ELSE 0)

\* for (int i = 0; i < numWorkers; ++i) { ...; startIdx = endIdx; }
RECURSIVE WorkerSlices(_, _, _, _, _)
WorkerSlices(i, numWorkers, startIdx, filesPerWorker, remainder) ==
    IF i >= numWorkers THEN <<>>
    ELSE LET endIdx == SliceEnd(startIdx, filesPerWorker, i, remainder)
         IN  <<Future(startIdx, endIdx)>>
                 \o WorkerSlices(i + 1, numWorkers, endIdx, filesPerWorker,
                                 remainder)

\* the directory scan found n supported files; numWorkers comes from the
\* command line
InitDir ==
    /\ dFiles \in {[k \in 1..n |-> k] : n \in 0..MaxFiles}
    /\ dWorkers \in -1..(MaxFiles + 1)
    /\ dOutcome = [k \in DOMAIN dFiles |-> "none"]
    /\ dCalls = [k \in DOMAIN dFiles |-> 0]
    /\ dFutures = <<>>
    /\ dRet = "none"
    /\ dpc = "ready"

\* registerDirectory up to the point where the files are handed out: no
\* supported file -> return false; numWorkers <= 1 or fewer files than
\* workers -> the calling thread takes the whole list; otherwise one
\* std::async worker per slice
registerDirectory ==
    /\ dpc = "ready"
    /\ LET n == Len(dFiles)
       IN  IF n = 0
           THEN /\ dRet' = "false"
                /\ dpc' = "returned"
                /\ UNCHANGED dFutures
           ELSE IF dWorkers <= 1 \/ n < dWorkers
           THEN /\ dFutures' = <<Future(0, n)>>
                /\ dpc' = "single"
                /\ UNCHANGED dRet
           ELSE /\ dFutures' = WorkerSlices(0, dWorkers, 0, n \div dWorkers,
                                            n % dWorkers)
                /\ dpc' = "workers"
                /\ UNCHANGED dRet
    /\ UNCHANGED <<dbVars, threadVars, hashVars, matchVars, cliVars,
                   temporalVars, longVars, openVars,
                   dFiles, dWorkers, dOutcome, dCalls>>

\* one pass of a worker's loop: if (!registerSong(file)) success = false;
\* ok is what registerSong returns
WorkerRegisterSong(i, ok) ==
    /\ dpc \in {"single", "workers"}
    /\ i \in DOMAIN dFutures
    /\ dFutures[i].next < dFutures[i].endIdx
    /\ LET file == dFiles[dFutures[i].next + 1]
       IN  /\ dCalls' = [dCalls EXCEPT ![file] = @ + 1]
           /\ dOutcome' = [dOutcome EXCEPT ![file] = IF ok THEN "true" ELSE "false"]
           /\ dFutures' = [dFutures EXCEPT ![i].next = @ + 1,
                                            ![i].success = (@ /\ ok)]
    /\ UNCHANGED <<dbVars, threadVars, hashVars, matchVars, cliVars,
                   temporalVars, longVars, openVars,
                   dFiles, dWorkers, dRet, dpc>>

\* the end of registerDirectory: the single-threaded loop is through, or
\* future.get() has returned for every worker (it blocks until the worker
\* finished); allSuccess is returned
registerDirectoryReturn ==
    /\ dpc \in {"single", "workers"}
    /\ \A i \in DOMAIN dFutures : dFutures[i].next >= dFutures[i].endIdx
    /\ dRet' = IF \A i \in DOMAIN dFutures : dFutures[i].success
               THEN "true" ELSE "false"
    /\ dpc' = "returned"
    /\ UNCHANGED <<dbVars, threadVars, hashVars, matchVars, cliVars,
                   temporalVars, longVars, openVars,
                   dFiles, dWorkers, dOutcome, dCalls, dFutures>>

DirNext ==
    \/ registerDirectory
    \/ \E i \in 1..(MaxFiles + 1), ok \in BOOLEAN : WorkerRegisterSong(i, ok)
    \/ registerDirectoryReturn

DirInit ==
    /\ InitDb /\ InitThreads /\ InitHashOff /\ InitMatchOff /\ InitCli
    /\ InitTemporalOff /\ InitLongOff /\ InitDir /\ InitOpened

DirSpec == DirInit /\ [][DirNext]_vars

\* C30: for every n >= 1 supported files and every numWorkers (0, negative,
\* 1, larger than n included) registerDirectory calls registerSong exactly
\* once for each supported file (no file is ever called twice, the slices
\* are disjoint and cover the list), returns only after every worker is
\* through its slice, and returns true exactly when every registerSong call
\* returned true.
C30_EachFileRegisteredOnce ==
    /\ \A k \in DOMAIN dFiles : dCalls[k] <= 1
    /\ (dpc = "returned" /\ Len(dFiles) >= 1) =>
          /\ \A k \in DOMAIN dFiles : dCalls[k] = 1
          /\ \A i \in DOMAIN dFutures : dFutures[i].next = dFutures[i].endIdx
          /\ dRet = "true" <=> (\A k \in DOMAIN dFiles : dOutcome[k] = "true")
          /\ dRet \in {"true", "false"}

\* C30 witness: registerDirectory has returned false from the
\* multi-threaded branch with slices of unequal length, one registerSong
\* call having failed and another succeeded
C30_Witness ==
    /\ dpc = "returned"
    /\ dWorkers >= 2 /\ Len(dFiles) >= dWorkers
    /\ Len(dFiles) % dWorkers # 0
    /\ Len(dFutures) = dWorkers
    /\ dRet = "false"
    /\ \E k, l \in DOMAIN dFiles : dOutcome[k] = "false" /\ dOutcome[l] = "true"

====
